---- MODULE Spec2Model ----
(***************************************************************************)
(* rst2gfm: the MarkdownTranslator of src/rst2gfm/main.py, a docutils      *)
(* NodeVisitor, and the walk that drives it (MarkdownWriter.translate ->   *)
(* document.walkabout).                                                    *)
(*                                                                         *)
(* A Python str is modelled as a sequence of one-character strings (an     *)
(* URI, which the code never inspects, is one opaque symbol).  The         *)
(* translator instance is the record visitor, one field per attribute;   *)
(* an attribute that __init__ does not create (table_caption,              *)
(* current_cell_colspan, ...) is a field that is absent until it is set,   *)
(* so hasattr is a test on the record's DOMAIN.  A node is a record        *)
(* [kind, attrs, astext]: attrs is a function whose DOMAIN is the set of   *)
(* attributes present on the node ("refuri" in node), astext the value of  *)
(* node.astext() for the node kinds whose handler reads it.                *)
(*                                                                         *)
(* The document is produced while it is walked: every behaviour is the     *)
(* walk of one structurally valid tree, and every tree within the bounds   *)
(* is walked by some behaviour.                                            *)
(***************************************************************************)
EXTENDS Integers, Sequences, FiniteSets, TLC

VARIABLES
  visitor,  \* the MarkdownTranslator instance (its attributes)
  stack,    \* the open walkabout frames, outermost first: [node, txt, out0, kids]
  pc,       \* "walking" | "done" (walkabout returned) | "raised" (an exception left it)
  ev,       \* the last callback dispatched: [op, node, out0, pre], and txt on a departure
  doc,      \* the nodes entered so far, in document order
  budget,   \* how many more nodes the document may hold
  conv      \* the conversions of the document: [n, log, at, first]

vars == <<visitor, stack, pc, ev, doc, budget, conv>>

----------------------------------------------------------------------------
(* Bounds of the model.                                                    *)

MaxSectionNodes == 5
MaxSkipNodes == 4
MaxInlineNodes == 4
MaxCodeNodes == 4
MaxTableNodes == 6
MaxListNodes == 6
MaxCols == 1
MaxTexts == 2
MaxTwiceNodes == 4
MaxRefNodes == 5
MaxAnchorNodes == 3
MaxNestingNodes == 6
MaxIdLen == 3

----------------------------------------------------------------------------
(* Python str and list operations, on sequences of characters.             *)

NL == "\n"
SP == " "

None == <<>>
Some(v) == <<v>>

RECURSIVE Flatten(_)
\* "".join(fragments)
Flatten(frags) ==
  IF frags = <<>> THEN <<>> ELSE Head(frags) \o Flatten(Tail(frags))

RECURSIVE Rep(_, _)
\* s * n  (the empty string when n <= 0)
Rep(s, n) ==
  IF n <= 0 THEN <<>> ELSE s \o Rep(s, n - 1)

RECURSIVE Join(_, _)
\* sep.join(items)
Join(sep, items) ==
  IF items = <<>> THEN <<>>
  ELSE IF Len(items) = 1 THEN items[1]
  ELSE items[1] \o sep \o Join(sep, Tail(items))

RECURSIVE Replace(_, _, _)
\* s.replace(c, by) for a one-character c
Replace(s, c, by) ==
  IF s = <<>> THEN <<>>
  ELSE (IF Head(s) = c THEN by ELSE <<Head(s)>>) \o Replace(Tail(s), c, by)

IsSpace(c) == c \in {SP, NL}

RECURSIVE LStrip(_)
LStrip(s) ==
  IF s # <<>> /\ IsSpace(Head(s)) THEN LStrip(Tail(s)) ELSE s

RECURSIVE RStrip(_)
RStrip(s) ==
  IF s # <<>> /\ IsSpace(s[Len(s)]) THEN RStrip(SubSeq(s, 1, Len(s) - 1)) ELSE s

\* s.strip()
Strip(s) == RStrip(LStrip(s))

\* c.lower() on the characters of the model's alphabet
LowerChar(c) ==
  CASE c = "A" -> "a"
    [] c = "B" -> "b"
    [] OTHER -> c

\* s.lower()
Lower(s) == [i \in 1..Len(s) |-> LowerChar(s[i])]

IsPrefix(p, s) == Len(p) <= Len(s) /\ SubSeq(s, 1, Len(p)) = p

\* a in d / d[a] = v / hasattr, setattr, delattr
Has(f, a) == a \in DOMAIN f
SetAttr(f, a, v) == [k \in DOMAIN f \cup {a} |-> IF k = a THEN v ELSE f[k]]
DelAttr(f, a) == [k \in DOMAIN f \ {a} |-> f[k]]

\* self.output.append(s)
Emit(self, s) == [self EXCEPT !.output = Append(@, s)]

\* raise e: the translator as the handler left it, with the exception in flight
Raise(self, e) == SetAttr(self, "raised", e)

\* the characters of a few fixed fragments
\* a TLA+ string cannot hold the backquote character: the symbol BT stands for it
BT == "BQ"
Fence == <<BT, BT, BT>>
Br == <<"<", "b", "r", ">">>
Bar == <<SP, "|", SP>>
Dashes == <<"-", "-", "-">>
Placeholder == <<"<", "!", "-", "-", SP, "-", "-", ">">>
CaptionOpen == <<NL, "*", "T", "a", "b", "l", "e", ":", SP>>
AnchorOpen == <<"<", "a", SP, "i", "d", "=", "\"">>
AnchorClose == <<"\"", ">", "<", "/", "a", ">">>

\* str(x) of a list of str, as an f-string formats it: ['a', 'b']
ReprList(xs) ==
  <<"[">> \o Join(<<",", SP>>, [i \in 1..Len(xs) |-> <<"'">> \o xs[i] \o <<"'">>]) \o <<"]">>

----------------------------------------------------------------------------
(* MarkdownTranslator.                                                     *)

__init__ ==
  [ output |-> <<>>,
    list_depth |-> 0,
    section_level |-> 0,
    in_code_block |-> FALSE,
    code_language |-> <<"p", "y", "t", "h", "o", "n">>,
    in_table |-> FALSE,
    table_data |-> <<>>,
    table_has_header |-> TRUE,
    current_row |-> <<>>,
    entry_text |-> Some(<<>>),
    list_type |-> <<>>,
    reference_stack |-> <<>>,
    pending_refs |-> <<>>,
    refs_map |-> <<>> ]

astext(self) == Flatten(self.output)

visit_document(self, node) == self

visit_section(self, node) ==
  [self EXCEPT !.section_level = @ + 1]

depart_section(self, node) ==
  [self EXCEPT !.section_level = @ - 1]

visit_subtitle(self, node) ==
  [Emit(self, <<"#", "#", SP>>) EXCEPT !.section_level = @ + 1]

depart_subtitle(self, node) ==
  Emit(self, <<NL, NL>>)

visit_title(self, node) ==
  IF self.in_table
  THEN SetAttr(self, "table_caption", node.astext)
  ELSE Emit(self, Rep(<<"#">>, self.section_level + 1) \o <<SP>>)

depart_title(self, node) ==
  Emit(self, <<NL, NL>>)

visit_paragraph(self, node) == self

depart_paragraph(self, node) ==
  Emit(self, <<NL, NL>>)

visit_Text(self, node) ==
  IF self.in_table /\ self.entry_text # None
  THEN [self EXCEPT !.entry_text = Some(Append(@[1], node.astext))]
  ELSE Emit(self, node.astext)

depart_Text(self, node) == self

visit_emphasis(self, node) == Emit(self, <<"*">>)

depart_emphasis(self, node) == Emit(self, <<"*">>)

visit_strong(self, node) == Emit(self, <<"*", "*">>)

depart_strong(self, node) == Emit(self, <<"*", "*">>)

visit_literal(self, node) == Emit(self, <<BT>>)

depart_literal(self, node) == Emit(self, <<BT>>)

visit_bullet_list(self, node) ==
  LET s1 == [self EXCEPT !.list_depth = @ + 1,
                         !.list_type = Append(@, "bullet")]
  IN IF s1.list_depth > 1 THEN Emit(s1, <<NL>>) ELSE s1

depart_bullet_list(self, node) ==
  LET s1 == [self EXCEPT !.list_depth = @ - 1]
  IN IF s1.list_type = <<>>
     THEN Raise(s1, "IndexError")
     ELSE Emit([s1 EXCEPT !.list_type = SubSeq(@, 1, Len(@) - 1)], <<NL>>)

visit_list_item(self, node) ==
  IF self.list_type = <<>>
  THEN Raise(self, "IndexError")
  ELSE IF self.list_type[Len(self.list_type)] = "bullet"
  THEN Emit(self, <<NL>> \o Rep(<<SP, SP>>, self.list_depth - 1) \o <<"-", SP>>)
  ELSE Emit(self, <<NL>> \o Rep(<<SP, SP, SP>>, self.list_depth - 1) \o <<"1", ".", SP>>)

depart_list_item(self, node) == self

visit_enumerated_list(self, node) ==
  [SetAttr(self, "list_counter", 1) EXCEPT !.list_type = Append(@, "enumerated")]

\* (an enumerated list left without popping its list context)
depart_enumerated_list_keep(self, node) ==
  Emit(self, <<NL>>)

depart_enumerated_list(self, node) ==
  LET s1 == Emit(self, <<NL>>)
  IN IF s1.list_type = <<>>
     THEN Raise(s1, "IndexError")
     ELSE [s1 EXCEPT !.list_type = SubSeq(@, 1, Len(@) - 1)]

\* re.sub(r"[^\w\-]", "", s): keeps letters, digits, underscore and hyphen
IsWordOrHyphen(c) == c \in {"a", "b", "c", "A", "B", "1", "_", "-"}

RECURSIVE KeepWord(_)
KeepWord(s) ==
  IF s = <<>> THEN <<>>
  ELSE (IF IsWordOrHyphen(Head(s)) THEN <<Head(s)>> ELSE <<>>) \o KeepWord(Tail(s))

_make_anchor(ref_id) ==
  KeepWord(Replace(Lower(ref_id), SP, <<"-">>))

_normalize_refname(refname) ==
  Replace(Lower(refname), SP, <<"-">>)

\* (a start one fragment before the reference's own bracket)
visit_reference_early(self, node) ==
  Emit([self EXCEPT !.reference_stack =
                       Append(@, [start |-> Len(self.output) - 1, text |-> node.astext])],
       <<"[">>)

visit_reference(self, node) ==
  Emit([self EXCEPT !.reference_stack =
                       Append(@, [start |-> Len(self.output), text |-> node.astext])],
       <<"[">>)

\* depart_reference resolving a named reference at once: it is queued only when
\* its target has been seen already
depart_reference_eager(self, node) ==
  IF self.reference_stack = <<>> THEN self
  ELSE
    LET ref_info == self.reference_stack[Len(self.reference_stack)]
        s1 == [self EXCEPT !.reference_stack = SubSeq(@, 1, Len(@) - 1)]
        s2 == IF Len(s1.output) > ref_info.start + 1
              THEN [s1 EXCEPT !.output =
                        Append(SubSeq(@, 1, ref_info.start + 1), ref_info.text)]
              ELSE s1
    IN IF Has(node.attrs, "refuri")
       THEN Emit(s2, <<"]", "(">> \o node.attrs.refuri \o <<")">>)
       ELSE IF Has(node.attrs, "refid")
       THEN Emit(s2, <<"]", "(", "#">> \o _make_anchor(node.attrs.refid) \o <<")">>)
       ELSE IF Has(node.attrs, "refname")
       THEN LET ref_id == _normalize_refname(node.attrs.refname)
                s3 == Emit(s2, <<"]", "[">> \o ref_id \o <<"]">>)
            IN IF Has(self.refs_map, node.attrs.refname)
               THEN [s3 EXCEPT !.pending_refs = Append(@, <<ref_id, node.attrs.refname>>)]
               ELSE s3
       ELSE Emit(s2, <<"]">>)

\* depart_reference testing refid before refuri
depart_reference_refid_first(self, node) ==
  IF self.reference_stack = <<>> THEN self
  ELSE
    LET ref_info == self.reference_stack[Len(self.reference_stack)]
        s1 == [self EXCEPT !.reference_stack = SubSeq(@, 1, Len(@) - 1)]
        s2 == IF Len(s1.output) > ref_info.start + 1
              THEN [s1 EXCEPT !.output =
                        Append(SubSeq(@, 1, ref_info.start + 1), ref_info.text)]
              ELSE s1
    IN IF Has(node.attrs, "refid")
       THEN Emit(s2, <<"]", "(", "#">> \o _make_anchor(node.attrs.refid) \o <<")">>)
       ELSE IF Has(node.attrs, "refuri")
       THEN Emit(s2, <<"]", "(">> \o node.attrs.refuri \o <<")">>)
       ELSE IF Has(node.attrs, "refname")
       THEN LET ref_id == _normalize_refname(node.attrs.refname)
            IN [Emit(s2, <<"]", "[">> \o ref_id \o <<"]">>)
                  EXCEPT !.pending_refs = Append(@, <<ref_id, node.attrs.refname>>)]
       ELSE Emit(s2, <<"]">>)

depart_reference(self, node) ==
  IF self.reference_stack = <<>> THEN self
  ELSE
    LET ref_info == self.reference_stack[Len(self.reference_stack)]
        s1 == [self EXCEPT !.reference_stack = SubSeq(@, 1, Len(@) - 1)]
        s2 == IF Len(s1.output) > ref_info.start + 1
              THEN [s1 EXCEPT !.output =
                        Append(SubSeq(@, 1, ref_info.start + 1), ref_info.text)]
              ELSE s1
    IN IF Has(node.attrs, "refuri")
       THEN Emit(s2, <<"]", "(">> \o node.attrs.refuri \o <<")">>)
       ELSE IF Has(node.attrs, "refid")
       THEN Emit(s2, <<"]", "(", "#">> \o _make_anchor(node.attrs.refid) \o <<")">>)
       ELSE IF Has(node.attrs, "refname")
       THEN LET ref_id == _normalize_refname(node.attrs.refname)
            IN [Emit(s2, <<"]", "[">> \o ref_id \o <<"]">>)
                  EXCEPT !.pending_refs = Append(@, <<ref_id, node.attrs.refname>>)]
       ELSE Emit(s2, <<"]">>)

visit_literal_block(self, node) ==
  LET language ==
        IF Has(node.attrs, "language") THEN node.attrs.language
        ELSE IF Has(node.attrs, "classes") /\ Len(node.attrs.classes) > 0
        THEN ReprList(node.attrs.classes)
        ELSE <<>>
  IN Emit([self EXCEPT !.in_code_block = TRUE], <<NL>> \o Fence \o language)

depart_literal_block(self, node) ==
  Emit([self EXCEPT !.in_code_block = FALSE], <<NL>> \o Fence \o <<NL, NL>>)

\* x in xs, for a list xs
InList(x, xs) == \E i \in 1..Len(xs) : xs[i] = x

visit_table(self, node) ==
  LET classes == node.attrs.classes
      table_type ==
        IF Has(node.attrs, "classes")
        THEN (IF InList(<<"csv-table">>, classes) THEN "csv"
              ELSE IF InList(<<"list-table">>, classes) THEN "list"
              ELSE IF InList(<<"grid">>, classes) THEN "grid"
              ELSE "simple")
        ELSE "simple"
      s1 == [self EXCEPT !.table_data = <<>>, !.in_table = TRUE]
      s2 == SetAttr(s1, "table_type", table_type)
  IN [s2 EXCEPT !.table_has_header =
         ~(Has(node.attrs, "classes") /\ InList(<<"no-header">>, classes))]

\* max(len(row) for row in rows)
RECURSIVE MaxLen(_)
MaxLen(rows) ==
  IF rows = <<>> THEN 0
  ELSE LET m == MaxLen(Tail(rows))
       IN IF Len(Head(rows)) > m THEN Len(Head(rows)) ELSE m

\* the padding loop left out
PadRow_none(row, col_count) == row

\* while len(row) < col_count: row.append("")
PadRow(row, col_count) ==
  row \o [i \in 1..(col_count - Len(row)) |-> <<>>]

\* "| " + " | ".join(row) + " |"
TableLine(row) == <<"|", SP>> \o Join(Bar, row) \o <<SP, "|">>

depart_table(self, node) ==
  IF self.table_data = <<>> THEN self
  ELSE
    LET col_count == MaxLen(self.table_data)
        padded == [i \in 1..Len(self.table_data) |-> PadRow(self.table_data[i], col_count)]
        header == padded[1]
        head_md ==
          IF self.table_has_header
          THEN << TableLine(header),
                  TableLine([i \in 1..Len(header) |-> Dashes]) >>
          ELSE << TableLine([i \in 1..col_count |-> Placeholder]),
                  TableLine([i \in 1..col_count |-> Dashes]) >>
        data_rows == IF self.table_has_header THEN Tail(padded) ELSE padded
        rows_md == [i \in 1..Len(data_rows) |-> TableLine(data_rows[i])]
        caption_md ==
          IF Has(self, "table_caption")
          THEN << CaptionOpen \o self.table_caption \o <<"*", NL>> >>
          ELSE <<>>
        table_md == head_md \o rows_md \o caption_md
        s1 == IF Has(self, "table_caption") THEN DelAttr(self, "table_caption") ELSE self
        \* the rows were padded in place; current_row is the last of them
        s2 == [s1 EXCEPT !.table_data = padded, !.current_row = padded[Len(padded)]]
    IN [Emit(s2, <<NL>> \o Join(<<NL>>, table_md) \o <<NL, NL>>) EXCEPT !.in_table = FALSE]

visit_row(self, node) ==
  [self EXCEPT !.current_row = <<>>]

depart_row(self, node) ==
  [self EXCEPT !.table_data = Append(@, self.current_row)]

\* node.get(a, 0)
GetOr0(node, a) == IF Has(node.attrs, a) THEN node.attrs[a] ELSE 0

\* visit_entry taking the column span from morerows
visit_entry_rowspan(self, node) ==
  SetAttr(SetAttr([self EXCEPT !.entry_text = Some(<<>>)],
                  "current_cell_colspan", GetOr0(node, "morerows") + 1),
          "current_cell_rowspan", GetOr0(node, "morerows") + 1)

visit_entry(self, node) ==
  SetAttr(SetAttr([self EXCEPT !.entry_text = Some(<<>>)],
                  "current_cell_colspan", GetOr0(node, "morecols") + 1),
          "current_cell_rowspan", GetOr0(node, "morerows") + 1)

depart_entry(self, node) ==
  IF self.entry_text = None
  THEN Raise(self, "TypeError")
  ELSE
    LET text == Strip(Replace(Flatten(self.entry_text[1]), NL, Br))
        extra == IF Has(self, "current_cell_colspan") /\ self.current_cell_colspan > 1
                 THEN [i \in 1..(self.current_cell_colspan - 1) |-> <<>>]
                 ELSE <<>>
    IN [self EXCEPT !.current_row = Append(@, text) \o extra,
                    !.entry_text = None]

\* (an anchor that is the id as the node carries it)
visit_target_raw(self, node) ==
  IF Has(node.attrs, "refid")
  THEN Emit(self, AnchorOpen \o node.attrs.refid \o AnchorClose)
  ELSE IF Has(node.attrs, "refuri")
  THEN (IF Has(node.attrs, "names") /\ node.attrs.names # <<>>
        THEN [self EXCEPT !.refs_map = SetAttr(@, node.attrs.names[1], node.attrs.refuri)]
        ELSE self)
  ELSE self

visit_target(self, node) ==
  IF Has(node.attrs, "refid")
  THEN Emit(self, AnchorOpen \o _make_anchor(node.attrs.refid) \o AnchorClose)
  ELSE IF Has(node.attrs, "refuri")
  THEN (IF Has(node.attrs, "names") /\ node.attrs.names # <<>>
        THEN [self EXCEPT !.refs_map = SetAttr(@, node.attrs.names[1], node.attrs.refuri)]
        ELSE self)
  ELSE self

depart_target(self, node) == self

\* class SkipNode(Exception) of this module: not docutils.nodes.SkipNode
SkipNode == "rst2gfm.main.SkipNode"

visit_substitution_definition(self, node) == Raise(self, SkipNode)

visit_comment(self, node) == Raise(self, SkipNode)

visit_system_message(self, node) == Raise(self, SkipNode)

RECURSIVE RefDefs_blank(_, _)
\* (a loop that writes a definition with no URI for a name that is not in refs_map)
RefDefs_blank(self, refs) ==
  IF refs = <<>> THEN self
  ELSE LET ref_id == Head(refs)[1]
           refname == Head(refs)[2]
       IN RefDefs_blank(Emit(self, <<"[">> \o ref_id \o <<"]", ":", SP>>
                                     \o (IF Has(self.refs_map, refname)
                                         THEN self.refs_map[refname] ELSE <<>>)
                                     \o <<NL>>),
                        Tail(refs))

RECURSIVE RefDefs(_, _)
\* the loop of depart_document over the pending references left
RefDefs(self, refs) ==
  IF refs = <<>> THEN self
  ELSE LET ref_id == Head(refs)[1]
           refname == Head(refs)[2]
       IN RefDefs(IF Has(self.refs_map, refname)
                  THEN Emit(self, <<"[">> \o ref_id \o <<"]", ":", SP>>
                                    \o self.refs_map[refname] \o <<NL>>)
                  ELSE self,
                  Tail(refs))

depart_document(self, node) ==
  IF self.pending_refs # <<>>
  THEN RefDefs(Emit(self, <<NL, NL>>), self.pending_refs)
  ELSE self

unknown_visit(self, node) == self

unknown_departure(self, node) == self

----------------------------------------------------------------------------
(* NodeVisitor.dispatch_visit / dispatch_departure: the method named       *)
(* "visit_" / "depart_" + the node's class name, else the unknown_ pair.   *)

dispatch_visit(self, node) ==
  CASE node.kind = "document" -> visit_document(self, node)
    [] node.kind = "section" -> visit_section(self, node)
    [] node.kind = "subtitle" -> visit_subtitle(self, node)
    [] node.kind = "title" -> visit_title(self, node)
    [] node.kind = "paragraph" -> visit_paragraph(self, node)
    [] node.kind = "Text" -> visit_Text(self, node)
    [] node.kind = "emphasis" -> visit_emphasis(self, node)
    [] node.kind = "strong" -> visit_strong(self, node)
    [] node.kind = "literal" -> visit_literal(self, node)
    [] node.kind = "bullet_list" -> visit_bullet_list(self, node)
    [] node.kind = "list_item" -> visit_list_item(self, node)
    [] node.kind = "reference" -> visit_reference(self, node)
    [] node.kind = "literal_block" -> visit_literal_block(self, node)
    [] node.kind = "table" -> visit_table(self, node)
    [] node.kind = "row" -> visit_row(self, node)
    [] node.kind = "entry" -> visit_entry(self, node)
    [] node.kind = "enumerated_list" -> visit_enumerated_list(self, node)
    [] node.kind = "target" -> visit_target(self, node)
    [] node.kind = "substitution_definition" -> visit_substitution_definition(self, node)
    [] node.kind = "comment" -> visit_comment(self, node)
    [] node.kind = "system_message" -> visit_system_message(self, node)
    [] OTHER -> unknown_visit(self, node)

dispatch_departure(self, node) ==
  CASE node.kind = "document" -> depart_document(self, node)
    [] node.kind = "section" -> depart_section(self, node)
    [] node.kind = "subtitle" -> depart_subtitle(self, node)
    [] node.kind = "title" -> depart_title(self, node)
    [] node.kind = "paragraph" -> depart_paragraph(self, node)
    [] node.kind = "Text" -> depart_Text(self, node)
    [] node.kind = "emphasis" -> depart_emphasis(self, node)
    [] node.kind = "strong" -> depart_strong(self, node)
    [] node.kind = "literal" -> depart_literal(self, node)
    [] node.kind = "bullet_list" -> depart_bullet_list(self, node)
    [] node.kind = "list_item" -> depart_list_item(self, node)
    [] node.kind = "reference" -> depart_reference(self, node)
    [] node.kind = "literal_block" -> depart_literal_block(self, node)
    [] node.kind = "table" -> depart_table(self, node)
    [] node.kind = "row" -> depart_row(self, node)
    [] node.kind = "entry" -> depart_entry(self, node)
    [] node.kind = "enumerated_list" -> depart_enumerated_list(self, node)
    [] node.kind = "target" -> depart_target(self, node)
    [] OTHER -> unknown_departure(self, node)

----------------------------------------------------------------------------
(* The documents: node kinds, their attributes, and which node may hold    *)
(* which (the shape of a tree the docutils parser builds).  The tgroup,    *)
(* thead and tbody levels of a table, which the translator passes through  *)
(* unknown_visit and unknown_departure without effect, are left out: a row *)
(* is held by its table.  An entry holds paragraphs; a table inside an     *)
(* entry is outside the documents modelled.                                *)

Node(kind, attrs, text) == [kind |-> kind, attrs |-> attrs, astext |-> text]

Plain(kind) == Node(kind, <<>>, <<>>)

\* the contents of Text nodes
Contents == { <<"a">>, <<SP, "b", NL, "c", SP>> }

\* the Text nodes, in order, below a node whose handler calls node.astext()
TextRuns == UNION {[1..n -> Contents] : n \in 0..MaxTexts}

Uris == { <<"https://x.test">> }

\* the URIs of named targets
TargetUris == { <<"https://x.test">>, <<"https://y.test">> }

\* reference names and ids
Names == { <<"a">>, <<"A", SP, "b">> }

Ids == { <<"A", SP, "b", "!">> }

\* the ids of internal references and anchors: upper and lower case letters,
\* spaces, hyphens, underscores and punctuation
IdChars == {"A", "b", SP, "-", "_", "!"}

AnchorIds == UNION {[1..n -> IdChars] : n \in 1..MaxIdLen}

RefAttrs ==
  {<<>>} \cup {[refuri |-> u] : u \in Uris}
         \cup {[refid |-> i] : i \in Ids}
         \cup {[refname |-> n] : n \in Names}
         \cup {[refuri |-> u, refid |-> i] : u \in Uris, i \in Ids}
         \cup {[refid |-> i, refname |-> n] : i \in Ids, n \in {<<"a">>}}
         \cup {[refuri |-> u, refid |-> i, refname |-> n] :
                 u \in Uris, i \in Ids, n \in {<<"a">>}}

TargetAttrs ==
  {[refid |-> i, names |-> <<>>] : i \in Ids}
    \cup {[refuri |-> u, names |-> <<n>>] : u \in TargetUris, n \in Names}
    \cup {[refuri |-> u, names |-> <<>>] : u \in Uris}

Languages == { <<"g", "o">> }

ClassLists == { <<>>, << <<"code">> >>, << <<"code">>, <<"python">> >> }

LiteralBlockAttrs ==
  {[classes |-> c] : c \in ClassLists}
    \cup {[classes |-> c, language |-> l] : c \in {<<>>}, l \in Languages}

TableAttrs == {[classes |-> c] : c \in { <<>>, << <<"no-header">> >> }}

EntryAttrs ==
  {<<>>} \cup {[morecols |-> n] : n \in 1..MaxCols}
         \cup {[morerows |-> 1]}
         \cup {[morecols |-> n, morerows |-> 1] : n \in 1..MaxCols}

Body == {"paragraph", "bullet_list", "enumerated_list", "literal_block", "table",
         "target", "comment", "substitution_definition", "system_message"}

Inline == {"Text", "emphasis", "strong", "literal", "reference"}

Children(kind) ==
  CASE kind = "document" -> {"title", "subtitle", "section"} \cup Body
    [] kind = "section" -> {"title", "section"} \cup Body
    [] kind \in {"title", "subtitle", "paragraph"} -> Inline
    [] kind \in {"emphasis", "strong", "literal"} -> {"Text"}
    [] kind = "reference" -> {"Text", "emphasis", "strong", "literal", "reference"}
    [] kind \in {"bullet_list", "enumerated_list"} -> {"list_item"}
    [] kind = "list_item" -> {"paragraph", "bullet_list", "enumerated_list"}
    [] kind = "literal_block" -> {"Text"}
    [] kind = "table" -> {"title", "row"}
    [] kind = "row" -> {"entry"}
    [] kind = "entry" -> {"paragraph"}
    [] kind \in {"comment", "substitution_definition"} -> {"Text"}
    [] kind = "system_message" -> {"paragraph"}
    [] OTHER -> {}

\* a title is the first child of its parent, a subtitle follows the document's title
MayHold(frame, kind) ==
  /\ kind \in Children(frame.node.kind)
  /\ kind = "title" => frame.kids = <<>>
  /\ kind = "subtitle" => frame.kids = <<"title">>

\* the kinds whose handler calls node.astext(): the subtree's text is fixed on entry
ReadsText(kind) == kind \in {"title", "reference"}

\* a Text node with content c fits every open node whose astext() was read
Fits(frames, c) ==
  \A i \in 1..Len(frames) :
    ReadsText(frames[i].node.kind) => IsPrefix(frames[i].txt \o c, frames[i].node.astext)

\* every open node's subtree gains the text c
AddText(frames, c) ==
  [i \in 1..Len(frames) |-> [frames[i] EXCEPT !.txt = @ \o c]]

Frame(node, out) == [node |-> node, txt |-> <<>>, out0 |-> out, kids |-> <<>>]

AddKid(frames, kind) ==
  [frames EXCEPT ![Len(frames)].kids = Append(@, kind)]

----------------------------------------------------------------------------
(* Node.walkabout: dispatch_visit, the children in order, then             *)
(* dispatch_departure.  It catches docutils.nodes.SkipNode (and the other  *)
(* docutils tree-pruning classes, which this translator never raises); any *)
(* other exception leaves the walk.                                        *)
(*                                                                         *)
(* A frame of the stack is an open node: txt is the text of the Text nodes *)
(* walked below it so far, out0 the output text when it was entered, kids  *)
(* the kinds of its children so far.  ev records the last callback: the    *)
(* node, out0, and pre, the translator as it was before the callback.      *)

Init(n) ==
  /\ visitor = __init__
  /\ stack = <<>>
  /\ pc = "new"
  /\ ev = [op |-> "new"]
  /\ doc = <<>>
  /\ budget = n
  /\ conv = [n |-> 1, log |-> <<>>, at |-> 1, first |-> <<>>]

\* the first conversion of a document logs its callbacks; a second conversion
\* of the same document is dispatched the same callbacks in the same order
Logged(op, node) ==
  IF conv.n = 1
  THEN conv' = [conv EXCEPT !.log = Append(@, <<op, node>>)]
  ELSE /\ conv.at <= Len(conv.log)
       /\ conv.log[conv.at][1] = op
       /\ conv.log[conv.at][2].kind = node.kind
       /\ conv.log[conv.at][2] = node
       /\ conv' = [conv EXCEPT !.at = @ + 1]

\* translate: the visitor is constructed and the walk begins at the document
translate ==
  /\ pc = "new"
  /\ LET node == Plain("document")
     IN /\ visitor' = visit_document(visitor, node)
        /\ stack' = <<Frame(node, <<>>)>>
        /\ ev' = [op |-> "visit", node |-> node, out0 |-> <<>>, pre |-> visitor]
  /\ pc' = "walking"
  /\ UNCHANGED <<doc, budget, conv>>

\* walkabout enters a node that may have children
Enter(node) ==
  /\ pc = "walking"
  /\ budget > 0
  /\ stack # <<>>
  /\ MayHold(stack[Len(stack)], node.kind)
  /\ LET r == dispatch_visit(visitor, node)
         out == Flatten(visitor.output)
     IN /\ ev' = [op |-> "visit", node |-> node, out0 |-> out, pre |-> visitor]
        /\ IF Has(r, "raised")
           THEN IF r.raised = "docutils.nodes.SkipNode"
                THEN /\ visitor' = DelAttr(r, "raised")
                     /\ stack' = AddKid(stack, node.kind)
                     /\ pc' = pc
                ELSE /\ visitor' = DelAttr(r, "raised")
                     /\ stack' = stack
                     /\ pc' = "raised"
           ELSE /\ visitor' = r
                /\ stack' = Append(AddKid(stack, node.kind), Frame(node, out))
                /\ pc' = pc
  /\ doc' = Append(doc, node)
  /\ budget' = budget - 1
  /\ Logged("visit", node)

\* walkabout of a node without children: its visit and its departure
Leaf(node) ==
  /\ pc = "walking"
  /\ budget > 0
  /\ stack # <<>>
  /\ MayHold(stack[Len(stack)], node.kind)
  /\ node.kind = "Text" => Fits(stack, node.astext)
  /\ LET r == dispatch_visit(visitor, node)
         d == IF Has(r, "raised") THEN r ELSE dispatch_departure(r, node)
     IN /\ ev' = [op |-> "visit", node |-> node,
                   out0 |-> Flatten(visitor.output), pre |-> visitor]
        /\ visitor' = IF Has(d, "raised") THEN DelAttr(d, "raised") ELSE d
        /\ pc' = IF Has(d, "raised") THEN "raised" ELSE pc
  /\ stack' = AddKid(IF node.kind = "Text" THEN AddText(stack, node.astext) ELSE stack,
                     node.kind)
  /\ doc' = Append(doc, node)
  /\ budget' = budget - 1
  /\ Logged("leaf", node)

\* walkabout leaves the innermost open node of the given kind
Leave(kind) ==
  /\ pc = "walking"
  /\ Len(stack) > 1
  /\ LET frame == stack[Len(stack)]
         r == dispatch_departure(visitor, frame.node)
     IN /\ frame.node.kind = kind
        /\ ReadsText(kind) => frame.txt = frame.node.astext
        /\ ev' = [op |-> "depart", node |-> frame.node, out0 |-> frame.out0, pre |-> visitor,
                   txt |-> frame.txt]
        /\ visitor' = IF Has(r, "raised") THEN DelAttr(r, "raised") ELSE r
        /\ pc' = IF Has(r, "raised") THEN "raised" ELSE pc
        /\ Logged("depart", frame.node)
  /\ stack' = SubSeq(stack, 1, Len(stack) - 1)
  /\ UNCHANGED <<doc, budget>>

\* the walk returns: the document is left and translate reads astext()
depart_document_step ==
  /\ pc = "walking"
  /\ Len(stack) = 1
  /\ LET frame == stack[1]
     IN /\ visitor' = depart_document(visitor, frame.node)
        /\ ev' = [op |-> "depart", node |-> frame.node, out0 |-> frame.out0, pre |-> visitor]
        /\ Logged("depart", frame.node)
  /\ stack' = <<>>
  /\ pc' = "done"
  /\ UNCHANGED <<doc, budget>>

\* MarkdownWriter.translate constructs its visitor: translator_class(document),
\* whatever translator an earlier conversion left behind
translator_class_kept(old) == old

translator_class(old) == __init__

\* the same document is converted a second time
translate_again ==
  /\ pc = "done"
  /\ conv.n = 1
  /\ LET node == Plain("document")
         fresh == translator_class(visitor)
     IN /\ visitor' = visit_document(fresh, node)
        /\ stack' = <<Frame(node, <<>>)>>
        /\ ev' = [op |-> "visit", node |-> node, out0 |-> <<>>, pre |-> fresh]
  /\ pc' = "walking"
  /\ doc' = <<>>
  /\ budget' = Len(doc)
  /\ conv' = [conv EXCEPT !.n = 2, !.first = astext(visitor)]

(* One action per handler: the walk dispatches it on a node of its kind.    *)

visit_section_step ==
  /\ pc = "walking"
  /\ Enter(Plain("section"))
depart_section_step ==
  /\ pc = "walking"
  /\ Leave("section")
\* (a subtree of n Text nodes needs n more nodes of the document)
visit_title_step ==
  /\ pc = "walking"
  /\ \E run \in TextRuns :
       /\ Len(run) < budget
       /\ Enter(Node("title", <<>>, Flatten(run)))
depart_title_step ==
  /\ pc = "walking"
  /\ Leave("title")
visit_subtitle_step ==
  /\ pc = "walking"
  /\ Enter(Plain("subtitle"))
depart_subtitle_step ==
  /\ pc = "walking"
  /\ Leave("subtitle")
visit_paragraph_step ==
  /\ pc = "walking"
  /\ Enter(Plain("paragraph"))
depart_paragraph_step ==
  /\ pc = "walking"
  /\ Leave("paragraph")
visit_Text_step ==
  /\ pc = "walking"
  /\ \E c \in Contents : Leaf(Node("Text", <<>>, c))
visit_emphasis_step ==
  /\ pc = "walking"
  /\ Enter(Plain("emphasis"))
depart_emphasis_step ==
  /\ pc = "walking"
  /\ Leave("emphasis")
visit_strong_step ==
  /\ pc = "walking"
  /\ Enter(Plain("strong"))
depart_strong_step ==
  /\ pc = "walking"
  /\ Leave("strong")
visit_literal_step ==
  /\ pc = "walking"
  /\ Enter(Plain("literal"))
depart_literal_step ==
  /\ pc = "walking"
  /\ Leave("literal")
visit_bullet_list_step ==
  /\ pc = "walking"
  /\ Enter(Plain("bullet_list"))
depart_bullet_list_step ==
  /\ pc = "walking"
  /\ Leave("bullet_list")
visit_enumerated_list_step ==
  /\ pc = "walking"
  /\ Enter(Plain("enumerated_list"))
depart_enumerated_list_step ==
  /\ pc = "walking"
  /\ Leave("enumerated_list")
visit_list_item_step ==
  /\ pc = "walking"
  /\ Enter(Plain("list_item"))
depart_list_item_step ==
  /\ pc = "walking"
  /\ Leave("list_item")

\* (the parser builds no reference inside a reference)
visit_reference_step ==
  /\ pc = "walking"
  /\ stack[Len(stack)].node.kind # "reference"
  /\ \E a \in RefAttrs, run \in TextRuns :
       /\ Len(run) < budget
       /\ Enter(Node("reference", a, Flatten(run)))
\* a reference to an external URI
visit_uri_reference_step ==
  /\ pc = "walking"
  /\ stack[Len(stack)].node.kind # "reference"
  /\ \E u \in Uris, run \in TextRuns :
       /\ Len(run) < budget
       /\ Enter(Node("reference", [refuri |-> u], Flatten(run)))
\* a reference that is a child of a reference, which the node-tree interface
\* allows: its text is part of the text of the reference that holds it
visit_nested_reference_step ==
  /\ pc = "walking"
  /\ stack[Len(stack)].node.kind = "reference"
  /\ \E u \in Uris, run \in TextRuns :
       /\ Len(run) < budget
       /\ Fits(stack, Flatten(run))
       /\ Enter(Node("reference", [refuri |-> u], Flatten(run)))
depart_reference_step ==
  /\ pc = "walking"
  /\ Leave("reference")
visit_literal_block_step ==
  /\ pc = "walking"
  /\ \E a \in LiteralBlockAttrs : Enter(Node("literal_block", a, <<>>))
depart_literal_block_step ==
  /\ pc = "walking"
  /\ Leave("literal_block")
visit_table_step ==
  /\ pc = "walking"
  /\ \E a \in TableAttrs : Enter(Node("table", a, <<>>))
\* a table as the parser builds it holds at least one row
depart_table_step ==
  /\ pc = "walking"
  /\ InList("row", stack[Len(stack)].kids)
  /\ Leave("table")
\* a table without rows, which the node-tree interface allows
depart_empty_table_step ==
  /\ pc = "walking"
  /\ ~InList("row", stack[Len(stack)].kids)
  /\ Leave("table")
visit_row_step ==
  /\ pc = "walking"
  /\ Enter(Plain("row"))
\* a row as the parser builds it holds at least one entry
depart_row_step ==
  /\ pc = "walking"
  /\ stack[Len(stack)].kids # <<>>
  /\ Leave("row")
visit_entry_step ==
  /\ pc = "walking"
  /\ \E a \in EntryAttrs : Enter(Node("entry", a, <<>>))
depart_entry_step ==
  /\ pc = "walking"
  /\ Leave("entry")
\* the parser leaves a name on one target only (a duplicate moves to dupnames)
visit_target_step ==
  /\ pc = "walking"
  /\ \E a \in TargetAttrs :
       /\ \A i \in 1..Len(doc) :
            doc[i].kind = "target" /\ a.names # <<>> => doc[i].attrs.names # a.names
       /\ Leaf(Node("target", a, <<>>))
\* the internal references and anchors of a document with one id: the id of
\* the first of them is the id of the others
OneId ==
  LET used == {doc[i].attrs.refid : i \in {j \in 1..Len(doc) : Has(doc[j].attrs, "refid")}}
  IN IF used = {} THEN AnchorIds ELSE used
visit_id_reference_step ==
  /\ pc = "walking"
  /\ stack[Len(stack)].node.kind # "reference"
  /\ \E r \in OneId, run \in TextRuns :
       /\ Len(run) < budget
       /\ Enter(Node("reference", [refid |-> r], Flatten(run)))
visit_id_target_step ==
  /\ pc = "walking"
  /\ \E r \in OneId :
       Leaf(Node("target", [refid |-> r, names |-> <<>>], <<>>))
visit_comment_step ==
  /\ pc = "walking"
  /\ Enter(Plain("comment"))
visit_substitution_definition_step ==
  /\ pc = "walking"
  /\ Enter(Plain("substitution_definition"))
visit_system_message_step ==
  /\ pc = "walking"
  /\ Enter(Plain("system_message"))

----------------------------------------------------------------------------
(* Documents of sections, titles and subtitles.                            *)

InitSections == Init(MaxSectionNodes)

NextSections ==
  \/ translate
  \/ visit_section_step
  \/ depart_section_step
  \/ visit_title_step
  \/ depart_title_step
  \/ visit_subtitle_step
  \/ depart_subtitle_step
  \/ visit_Text_step
  \/ depart_document_step

SpecSections == InitSections /\ [][NextSections]_vars

----------------------------------------------------------------------------
(* Documents with comments, substitution definitions and system messages.  *)

InitSkip == Init(MaxSkipNodes)

NextSkip ==
  \/ translate
  \/ visit_section_step
  \/ depart_section_step
  \/ visit_paragraph_step
  \/ depart_paragraph_step
  \/ visit_Text_step
  \/ visit_comment_step
  \/ visit_substitution_definition_step
  \/ visit_system_message_step
  \/ depart_document_step

SpecSkip == InitSkip /\ [][NextSkip]_vars

----------------------------------------------------------------------------
(* Documents of paragraphs with inline markup, references and targets.     *)

InitInline == Init(MaxInlineNodes)

NextInline ==
  \/ translate
  \/ visit_paragraph_step
  \/ depart_paragraph_step
  \/ visit_Text_step
  \/ visit_emphasis_step
  \/ depart_emphasis_step
  \/ visit_strong_step
  \/ depart_strong_step
  \/ visit_literal_step
  \/ depart_literal_step
  \/ visit_reference_step
  \/ depart_reference_step
  \/ visit_target_step
  \/ depart_document_step

SpecInline == InitInline /\ [][NextInline]_vars

----------------------------------------------------------------------------
(* Documents of paragraphs and literal blocks.                             *)

InitCode == Init(MaxCodeNodes)

NextCode ==
  \/ translate
  \/ visit_paragraph_step
  \/ depart_paragraph_step
  \/ visit_Text_step
  \/ visit_literal_block_step
  \/ depart_literal_block_step
  \/ depart_document_step

SpecCode == InitCode /\ [][NextCode]_vars

----------------------------------------------------------------------------
(* Documents of tables, as the parser builds them (SpecTables), and with   *)
(* tables that hold no row as well (SpecAnyTables).                        *)

InitTables == Init(MaxTableNodes)

NextTables ==
  \/ translate
  \/ visit_table_step
  \/ depart_table_step
  \/ visit_title_step
  \/ depart_title_step
  \/ visit_row_step
  \/ depart_row_step
  \/ visit_entry_step
  \/ depart_entry_step
  \/ visit_paragraph_step
  \/ depart_paragraph_step
  \/ visit_uri_reference_step
  \/ depart_reference_step
  \/ visit_Text_step
  \/ depart_document_step

SpecTables == InitTables /\ [][NextTables]_vars

NextAnyTables ==
  \/ NextTables
  \/ depart_empty_table_step

SpecAnyTables == InitTables /\ [][NextAnyTables]_vars

----------------------------------------------------------------------------
(* Documents of bullet and enumerated lists.                               *)

InitLists == Init(MaxListNodes)

NextLists ==
  \/ translate
  \/ visit_bullet_list_step
  \/ depart_bullet_list_step
  \/ visit_enumerated_list_step
  \/ depart_enumerated_list_step
  \/ visit_list_item_step
  \/ depart_list_item_step
  \/ visit_paragraph_step
  \/ depart_paragraph_step
  \/ visit_Text_step
  \/ depart_document_step

SpecLists == InitLists /\ [][NextLists]_vars

----------------------------------------------------------------------------
(* Documents of lists whose items hold paragraphs with references.         *)

InitNesting == Init(MaxNestingNodes)

NextNesting ==
  \/ NextLists
  \/ visit_uri_reference_step
  \/ visit_nested_reference_step
  \/ depart_reference_step

SpecNesting == InitNesting /\ [][NextNesting]_vars

----------------------------------------------------------------------------
(* Documents of internal references and anchor targets with one id.        *)

InitAnchors == Init(MaxAnchorNodes)

NextAnchors ==
  \/ translate
  \/ visit_paragraph_step
  \/ depart_paragraph_step
  \/ visit_Text_step
  \/ visit_id_reference_step
  \/ depart_reference_step
  \/ visit_id_target_step
  \/ depart_document_step

SpecAnchors == InitAnchors /\ [][NextAnchors]_vars

----------------------------------------------------------------------------
(* Documents of paragraphs with references, also one inside the other.     *)

InitRefs == Init(MaxRefNodes)

NextRefs ==
  \/ translate
  \/ visit_paragraph_step
  \/ depart_paragraph_step
  \/ visit_Text_step
  \/ visit_emphasis_step
  \/ depart_emphasis_step
  \/ visit_uri_reference_step
  \/ visit_nested_reference_step
  \/ depart_reference_step
  \/ depart_document_step

SpecRefs == InitRefs /\ [][NextRefs]_vars

----------------------------------------------------------------------------
(* A document of tables (with or without rows), titles and paragraphs,     *)
(* converted twice: convert_rst_to_md is called again on the same source.  *)

InitTwice == Init(MaxTwiceNodes)

NextTwice ==
  \/ NextAnyTables
  \/ translate_again

SpecTwice == InitTwice /\ [][NextTwice]_vars

----------------------------------------------------------------------------
(* Properties.                                                             *)

\* the text written so far
Out == astext(visitor)

Walking == pc = "walking"

Entered(kind) == Walking /\ ev.op = "visit" /\ ev.node.kind = kind

Left(kind) == Walking /\ ev.op = "depart" /\ ev.node.kind = kind

\* how many open nodes are of one of the kinds
Open(kinds) == Cardinality({i \in 1..Len(stack) : stack[i].node.kind \in kinds})

InsideTable == Open({"table"}) > 0

Contains(text, part) ==
  \E i \in 0..(Len(text) - Len(part)) : SubSeq(text, i + 1, i + Len(part)) = part

CountOf(c, s) == Cardinality({i \in 1..Len(s) : s[i] = c})

RECURSIVE SplitLines(_)
SplitLines(s) ==
  IF \A i \in 1..Len(s) : s[i] # NL THEN <<s>>
  ELSE LET i == CHOOSE k \in 1..Len(s) : s[k] = NL /\ \A j \in 1..(k - 1) : s[j] # NL
       IN <<SubSeq(s, 1, i - 1)>> \o SplitLines(SubSeq(s, i + 1, Len(s)))

\* C1: a title outside a table, nested in k sections, emits k+1 '#' and one
\* space, whatever was visited before it.
C1_HeadingLevel ==
  Entered("title") /\ ~InsideTable
    => Out = ev.out0 \o Rep(<<"#">>, Open({"section"}) + 1) \o <<SP>>

SkippedKinds == {"comment", "substitution_definition", "system_message"}

\* C2: the skip signal of a comment, substitution_definition or system_message
\* is caught by the walk: the node's subtree is not entered, the walk goes on
\* and no exception leaves it.
C2_SkipCaught ==
  ev.op = "visit" /\ ev.node.kind \in SkippedKinds
    => pc = "walking" /\ stack[Len(stack)].node.kind \notin SkippedKinds

\* C3: between entering and leaving a reference with refuri u and subtree text
\* t the output gains exactly [t](u), at any position in the tree.
C3_ReferenceText ==
  Left("reference") /\ Has(ev.node.attrs, "refuri")
    => Out = ev.out0 \o <<"[">> \o ev.node.astext
                     \o <<"]", "(">> \o ev.node.attrs.refuri \o <<")">>

\* C4: a literal_block with language L and text T gives the fence line with L,
\* then T on a line of its own, then the closing fence line and a blank line.
C4_FencedBlock ==
  Left("literal_block") /\ Has(ev.node.attrs, "language") /\ ev.txt # <<>>
    => Out = ev.out0 \o <<NL>> \o Fence \o ev.node.attrs.language
                     \o <<NL>> \o ev.txt
                     \o <<NL>> \o Fence \o <<NL>> \o <<NL>>

\* C5: outside every table subtree the table context is inactive, and a Text
\* node visited there is appended to the output buffer.
C5_TableContextInactive ==
  pc \in {"walking", "done"} /\ ~InsideTable
    => /\ ~visitor.in_table
       /\ ev.op = "visit" /\ ev.node.kind = "Text"
            => visitor.output = Append(ev.pre.output, ev.node.astext)

\* the last callback was on a title that is a child of a table, or on a Text
\* child of such a title
OnTableTitle ==
  \/ Entered("title") /\ stack[Len(stack) - 1].node.kind = "table"
  \/ Left("title") /\ stack[Len(stack)].node.kind = "table"
  \/ /\ Entered("Text")
     /\ Len(stack) > 1
     /\ stack[Len(stack)].node.kind = "title"
     /\ stack[Len(stack) - 1].node.kind = "table"

\* C6: entering a title inside a table, visiting its text and leaving it append
\* nothing to the output buffer (the caption is written when the table is left).
C6_CaptionNotEmitted ==
  OnTableTitle => visitor.output = ev.pre.output

Lists == {"bullet_list", "enumerated_list"}

\* the kind of the innermost open list
InnermostList ==
  stack[CHOOSE i \in 1..Len(stack) :
          /\ stack[i].node.kind \in Lists
          /\ \A j \in (i + 1)..Len(stack) : stack[j].node.kind \notin Lists].node.kind

\* C7: a list_item inside d lists (bullet and enumerated both counted) emits a
\* newline, then 2*(d-1) spaces and "- " in a bullet list, 3*(d-1) spaces and
\* "1. " in an enumerated list.
C7_ItemIndent ==
  Entered("list_item")
    => LET d == Open(Lists)
       IN Out = ev.out0 \o <<NL>> \o
                  (IF InnermostList = "bullet_list"
                   THEN Rep(<<SP, SP>>, d - 1) \o <<"-", SP>>
                   ELSE Rep(<<SP, SP, SP>>, d - 1) \o <<"1", ".", SP>>)

\* a reference resolved by name / a target that declares a name for a URI
NamedReference(n) ==
  /\ n.kind = "reference"
  /\ ~Has(n.attrs, "refuri") /\ ~Has(n.attrs, "refid") /\ Has(n.attrs, "refname")

NamedTarget(n) ==
  /\ n.kind = "target"
  /\ ~Has(n.attrs, "refid") /\ Has(n.attrs, "refuri") /\ n.attrs.names # <<>>

DefinitionLine(name, uri) ==
  <<"[">> \o _normalize_refname(name) \o <<"]", ":", SP>> \o uri \o <<NL>>

\* reference i of the document names the target j of the document
Resolves(i, j) ==
  /\ NamedReference(doc[i])
  /\ NamedTarget(doc[j])
  /\ doc[j].attrs.names[1] = doc[i].attrs.refname

\* C8: a named reference resolves whatever the order of the reference and its
\* target in the document: the final output holds the line [normalized(n)]: u.
C8_DeferredResolution ==
  pc = "done"
    => \A i, j \in 1..Len(doc) :
         Resolves(i, j)
           => Contains(Out, DefinitionLine(doc[i].attrs.refname, doc[j].attrs.refuri))

\* a document walked to its end in which a named reference precedes its target
C8_Witness ==
  /\ pc = "done"
  /\ \E i, j \in 1..Len(doc) :
       /\ i < j
       /\ Resolves(i, j)
       /\ doc[i].attrs.refname = <<"A", SP, "b">>
       /\ Contains(Out, DefinitionLine(doc[i].attrs.refname, doc[j].attrs.refuri))

\* the lines of a table in the fragment written when the table is left
TableLines(fragment) ==
  SelectSeq(SplitLines(fragment), LAMBDA line : line # <<>> /\ line[1] = "|")

Widest(rows) ==
  CHOOSE n \in {Len(rows[i]) : i \in 1..Len(rows)} :
    \A i \in 1..Len(rows) : Len(rows[i]) <= n

HasHeader(node) == ~InList(<<"no-header">>, node.attrs.classes)

\* a table with accumulated rows has just been left
LeftTableWithRows == Left("table") /\ ev.pre.table_data # <<>>

\* C9: every line of a table with at least one row (the header or the
\* placeholder header, the separator, each data row) has C cells, C the
\* greatest width of an accumulated row.
C9_ColumnGrid ==
  LeftTableWithRows
    => LET rows == ev.pre.table_data
           lines == TableLines(visitor.output[Len(visitor.output)])
       IN /\ Len(visitor.output) = Len(ev.pre.output) + 1
          /\ Len(lines) = Len(rows) + (IF HasHeader(ev.node) THEN 1 ELSE 2)
          /\ \A k \in 1..Len(lines) : CountOf("|", lines[k]) = Widest(rows) + 1

\* a table whose header row is narrower than a later row has been left
C9_Witness ==
  /\ LeftTableWithRows
  /\ HasHeader(ev.node)
  /\ \E i \in 2..Len(ev.pre.table_data) :
       Len(ev.pre.table_data[1]) < Len(ev.pre.table_data[i])

\* the text of a cell: newlines replaced by <br>, surrounding whitespace trimmed
CellText(t) == Strip(Replace(t, NL, Br))

\* C10: an entry with morecols = N and cell text X adds X and then N empty
\* cells to its row, an entry without morecols one cell; morerows adds none.
C10_EntryCells ==
  Left("entry")
    => LET n == IF Has(ev.node.attrs, "morecols") THEN ev.node.attrs.morecols ELSE 0
       IN visitor.current_row =
            ev.pre.current_row \o <<CellText(ev.txt)>> \o [i \in 1..n |-> <<>>]

\* an entry with text that spans a further column and a further row has been left
C10_Witness ==
  /\ Left("entry")
  /\ Has(ev.node.attrs, "morecols")
  /\ Has(ev.node.attrs, "morerows")
  /\ ev.txt # <<>>
  /\ Len(visitor.current_row) = Len(ev.pre.current_row) + ev.node.attrs.morecols + 1

NamedRefs == SelectSeq(doc, NamedReference)

\* a target of the document declares the name
Declared(name) ==
  \E j \in 1..Len(doc) : NamedTarget(doc[j]) /\ doc[j].attrs.names[1] = name

UriOf(name) ==
  doc[CHOOSE j \in 1..Len(doc) :
        NamedTarget(doc[j]) /\ doc[j].attrs.names[1] = name].attrs.refuri

\* the definition lines of the named references whose name is declared
DefinitionLines ==
  LET declared == SelectSeq(NamedRefs, LAMBDA n : Declared(n.attrs.refname))
  IN Flatten([i \in 1..Len(declared) |->
                DefinitionLine(declared[i].attrs.refname, UriOf(declared[i].attrs.refname))])

\* C12: at the end of the document a named reference whose name no target
\* declared is dropped without a line and without an error; every named
\* reference whose name is declared gets the line [normalized-name]: uri.
C12_UnresolvedDropped ==
  /\ pc # "raised"
  /\ pc = "done"
       => Out = Flatten(ev.pre.output)
                  \o (IF NamedRefs = <<>> THEN <<>> ELSE <<NL, NL>> \o DefinitionLines)

\* a document has ended with a named reference that no target declares and
\* another one whose target is declared
C12_Witness ==
  /\ pc = "done"
  /\ \E i, k \in 1..Len(doc) :
       /\ NamedReference(doc[i]) /\ ~Declared(doc[i].attrs.refname)
       /\ NamedReference(doc[k]) /\ Declared(doc[k].attrs.refname)
  /\ Out = Flatten(ev.pre.output) \o <<NL, NL>> \o DefinitionLines

\* the closing syntax of a reference: the first of refuri, refid, refname that
\* the node carries decides
Closing(a) ==
  IF Has(a, "refuri") THEN <<"]", "(">> \o a.refuri \o <<")">>
  ELSE IF Has(a, "refid") THEN <<"]", "(", "#">> \o _make_anchor(a.refid) \o <<")">>
  ELSE IF Has(a, "refname") THEN <<"]", "[">> \o _normalize_refname(a.refname) \o <<"]">>
  ELSE <<"]">>

\* C13: a reference is written '[', its text and the closing syntax of the
\* first attribute present among refuri, refid, refname: ](uri), ](#anchor),
\* ][normalized-name] (then the pair is queued in the pending references, and
\* only then); with none of the three the brackets are bare, and the walk
\* goes on.
C13_ClosingSyntax ==
  ev.op = "depart" /\ ev.node.kind = "reference"
    => LET a == ev.node.attrs
       IN /\ pc = "walking"
          /\ Out = ev.out0 \o <<"[">> \o ev.node.astext \o Closing(a)
          /\ visitor.pending_refs =
               IF NamedReference(ev.node)
               THEN Append(ev.pre.pending_refs,
                           <<_normalize_refname(a.refname), a.refname>>)
               ELSE ev.pre.pending_refs

\* a reference that carries refid and refname has been left: it is written
\* as a link to the anchor and nothing is queued
C13_Witness ==
  /\ Left("reference")
  /\ Has(ev.node.attrs, "refid") /\ Has(ev.node.attrs, "refname")
  /\ ev.node.astext # <<>>
  /\ Out = ev.out0 \o <<"[">> \o ev.node.astext
                   \o <<"]", "(", "#">> \o _make_anchor(ev.node.attrs.refid) \o <<")">>
  /\ visitor.pending_refs = <<>>

\* C14: a list, bullet or enumerated, entered while another list is open (the
\* list-context stack is deeper than 1) writes a newline before its first
\* item; a top-level list writes none.
C14_SublistNewline ==
  Walking /\ ev.op = "visit" /\ ev.node.kind \in Lists
    => Out = ev.out0 \o (IF Open(Lists) > 1 THEN <<NL>> ELSE <<>>)

\* the language a class list names: its first class other than "code"
NamedLanguage(classes) ==
  LET named == SelectSeq(classes, LAMBDA c : c # <<"code">>)
  IN IF named = <<>> THEN <<>> ELSE named[1]

\* C15: the tag after the opening fence of a literal_block is its language
\* attribute if present, else the language its classes name ("code" is not
\* one: the classes code, python give python), else empty.
C15_LanguageTag ==
  Entered("literal_block")
    => LET a == ev.node.attrs
           tag == IF Has(a, "language") THEN a.language
                  ELSE IF Has(a, "classes") THEN NamedLanguage(a.classes)
                  ELSE <<>>
       IN Out = ev.out0 \o <<NL>> \o Fence \o tag

\* C16: a callback other than depart_reference only appends to the output
\* buffer; depart_reference cuts it back no further than just after the
\* reference's own '[', so every fragment that was in the buffer when the
\* reference was entered stays as it was, also for a reference inside a
\* reference.
C16_BoundedTruncation ==
  ev.op # "new"
    => IF ev.op = "depart" /\ ev.node.kind = "reference"
       THEN \E k \in 0..Len(ev.pre.output) :
              /\ Flatten(SubSeq(ev.pre.output, 1, k)) = ev.out0
              /\ IsPrefix(Append(SubSeq(ev.pre.output, 1, k), <<"[">>), visitor.output)
       ELSE IsPrefix(ev.pre.output, visitor.output)

\* a reference inside a reference has been left and fragments that its
\* children wrote were cut from the buffer
C16_Witness ==
  /\ Left("reference")
  /\ Open({"reference"}) > 0
  /\ ~IsPrefix(ev.pre.output, visitor.output)
  /\ Flatten(ev.pre.output) # <<>>
  /\ IsPrefix(ev.out0 \o <<"[">>, Out)

\* an id lower-cased, its spaces replaced by hyphens, without the characters
\* that are not alphanumeric, underscore or hyphen
Anchor(r) ==
  LET kept == SelectSeq(r, LAMBDA c : c = SP \/ IsWordOrHyphen(c))
  IN [i \in 1..Len(kept) |-> IF kept[i] = SP THEN "-" ELSE LowerChar(kept[i])]

\* C17: a reference with refid r links to #a and a target with refid r declares
\* the id a, the same a = Anchor(r) for both, and normalizing a again gives a.
C17_SameAnchor ==
  /\ Left("reference") /\ Has(ev.node.attrs, "refid")
       => visitor.output[Len(visitor.output)] =
            <<"]", "(", "#">> \o Anchor(ev.node.attrs.refid) \o <<")">>
  /\ Entered("target") /\ Has(ev.node.attrs, "refid")
       => visitor.output =
            Append(ev.pre.output, AnchorOpen \o Anchor(ev.node.attrs.refid) \o AnchorClose)
  /\ Walking /\ ev.op # "new" /\ Has(ev.node.attrs, "refid")
       => _make_anchor(_make_anchor(ev.node.attrs.refid)) = _make_anchor(ev.node.attrs.refid)

\* a target is visited after a reference with the same id, which holds an
\* upper case letter, a space and punctuation: the link and the anchor agree
C17_Witness ==
  /\ Entered("target")
  /\ Has(ev.node.attrs, "refid")
  /\ ev.node.attrs.refid = <<"A", SP, "!">>
  /\ \E i \in 1..Len(doc) : doc[i].kind = "reference" /\ doc[i].attrs.refid = ev.node.attrs.refid
  /\ Contains(ev.out0, <<"]", "(", "#", "a", "-", ")">>)
  /\ visitor.output[Len(visitor.output)] = AnchorOpen \o <<"a", "-">> \o AnchorClose

\* the table left last (tables of these documents hold no table) and its
\* title, if it has one
LastTable ==
  CHOOSE i \in 1..Len(doc) :
    doc[i].kind = "table" /\ \A j \in (i + 1)..Len(doc) : doc[j].kind # "table"

OwnTitle ==
  IF LastTable < Len(doc) /\ doc[LastTable + 1].kind = "title"
  THEN Some(doc[LastTable + 1].astext)
  ELSE None

OwnRows == Cardinality({j \in (LastTable + 1)..Len(doc) : doc[j].kind = "row"})

\* C18: the rows and the caption written when a table is left come from that
\* table's own subtree: as many rows as it holds, its own title as caption and
\* no caption when it has no title, whatever tables came before it (also one
\* with zero rows).
C18_OwnTableOnly ==
  LeftTableWithRows
    => LET fragment == visitor.output[Len(visitor.output)]
       IN /\ Len(ev.pre.table_data) = OwnRows
          /\ OwnTitle = None => ~Contains(fragment, CaptionOpen)
          /\ OwnTitle # None => Contains(fragment, CaptionOpen \o OwnTitle[1] \o <<"*", NL>>)

\* C19: in the walk of a structurally valid tree list_type and reference_stack
\* are never popped or indexed while empty (no callback raises, and the
\* callbacks that pop or index find an entry), and when the walk has ended
\* list_type and reference_stack are empty and list_depth is 0.
C19_BalancedStacks ==
  /\ pc # "raised"
  /\ ev.op = "depart" /\ ev.node.kind = "reference" => ev.pre.reference_stack # <<>>
  /\ ev.op = "depart" /\ ev.node.kind \in Lists => ev.pre.list_type # <<>>
  /\ ev.op = "visit" /\ ev.node.kind = "list_item" => ev.pre.list_type # <<>>
  /\ pc = "done"
       => /\ visitor.list_type = <<>>
          /\ visitor.reference_stack = <<>>
          /\ visitor.list_depth = 0

\* the walk of a document has ended that holds a list inside a list of the
\* other kind and a reference
C19_Witness ==
  /\ pc = "done"
  /\ \E i, j, k \in 1..Len(doc) :
       /\ i < j
       /\ doc[i].kind = "bullet_list"
       /\ doc[j].kind = "enumerated_list"
       /\ doc[k].kind = "reference"
  /\ \E i \in 2..Len(conv.log) :
       /\ conv.log[i][1] = "visit"
       /\ conv.log[i][2].kind = "enumerated_list"
       /\ conv.log[i - 1][2].kind = "list_item"
  /\ visitor.list_type = <<>>
  /\ visitor.reference_stack = <<>>
  /\ visitor.list_depth = 0

====
